---- MODULE Spec2Model ----
(***************************************************************************)
(* Exchange-rate validation, recording and alerting of                     *)
(* bots/exchange_monitor.py (class ExchangeMonitor).                       *)
(*                                                                         *)
(* Numbers.  Python floats are modelled by exact arithmetic: a rate is an  *)
(* integer number of units of 0.005, so 0.01 is 2 and 10000.0 is 2000000,  *)
(* and a percentage is an exact fraction in lowest terms.  An Optional     *)
(* value is a sequence of length at most one: None is <<>>, a value x is   *)
(* <<x>>.  A JSON object / Python dict is the set of its items.            *)
(***************************************************************************)
EXTENDS Integers, Sequences, FiniteSets, TLC

VARIABLES store, now, call

vars == <<store, now, call>>

-----------------------------------------------------------------------------
(* Bounds of the model                                                     *)

\* the clock runs over 0..MaxTime (days)
MaxTime == 1

-----------------------------------------------------------------------------
(* Program constants                                                       *)

DEFAULT_CHANGE_THRESHOLD == 5
DEFAULT_RATE_MIN == 2
DEFAULT_RATE_MAX == 2000000

\* ExchangeMonitor.__init__ keeps its arguments; the repository only ever
\* builds the monitor with the defaults.
change_threshold == DEFAULT_CHANGE_THRESHOLD
rate_min == DEFAULT_RATE_MIN
rate_max == DEFAULT_RATE_MAX

-----------------------------------------------------------------------------
(* Optional values                                                         *)

None == <<>>
Some(x) == <<x>>
IsNone(o) == o = <<>>
Val(o) == o[1]

-----------------------------------------------------------------------------
(* Exact fractions for percentages                                         *)

Abs(x) == IF x < 0 THEN -x ELSE x

RECURSIVE Gcd(_, _)
Gcd(a, b) == IF b = 0 THEN a ELSE Gcd(b, a % b)

\* the fraction n/d (d > 0) in lowest terms
Frac(n, d) ==
    LET g == Gcd(Abs(n), d)
    IN  [num |-> n \div g, den |-> d \div g]

\* abs(x) of a fraction
FracAbs(q) == [num |-> Abs(q.num), den |-> q.den]

\* q > k for a fraction q and an integer k
FracGtInt(q, k) == q.num > k * q.den

-----------------------------------------------------------------------------
(* Python dict operations on a set of items [key, rec]                     *)

DictHas(h, k) == \E e \in h : e.key = k

\* dict.get(k): the value, or None
DictGet(h, k) ==
    IF DictHas(h, k) THEN Some((CHOOSE e \in h : e.key = k).rec) ELSE None

\* Mutant of DictSet: the item is added and the item of k, if any, stays.
DictSet_Append(h, k, v) == h \cup {[key |-> k, rec |-> v]}

\* the assignment h[k] = v: the item of k, if any, is replaced
DictSet(h, k, v) == {e \in h : e.key # k} \cup {[key |-> k, rec |-> v]}

-----------------------------------------------------------------------------
(* The history file                                                        *)

\* _get_currency_key
CurrencyKey(from_currency, to_currency) == from_currency \o "_" \o to_currency

\* Mutant of LoadHistory: a read that fails yields what the file held.
LoadHistory_IgnoresFailure(file, rd) == file

\* load_history: the content of the file, or {} when the file is missing or
\* the read raises (rd = FALSE)
LoadHistory(file, rd) == IF rd THEN file ELSE {}

\* outcomes of a write: done; open() raised and the file is as it was;
\* the dump raised after open(.., "w") truncated the file, which then no
\* longer parses, so that every later load yields {}
WriteOutcomes == {"ok", "open_failed", "dump_failed"}

\* save_history: the new content of the file
SaveHistory(file, history, wr) ==
    CASE wr = "ok" -> history
      [] wr = "open_failed" -> file
      [] wr = "dump_failed" -> {}

\* get_last_rate
GetLastRate(file, from_currency, to_currency, rd) ==
    DictGet(LoadHistory(file, rd), CurrencyKey(from_currency, to_currency))

-----------------------------------------------------------------------------
(* validate_rate                                                           *)

\* The returned tuple (is_valid, message, change_pct).  A message is the
\* record of its kind and of the values its text cites; lookups counts the
\* calls of get_last_rate the validation made.
Verdict(ok, message, change_pct, lookups) ==
    [ok |-> ok, message |-> message, change_pct |-> change_pct,
     lookups |-> lookups]

MsgEmpty == [kind |-> "empty"]
MsgNotPositive(r) == [kind |-> "not_positive", value |-> r]
\* Mutant of MsgOutOfRange: the two bounds change places in the text.
MsgOutOfRange_Swapped(r) ==
    [kind |-> "out_of_range", value |-> r, min |-> rate_max, max |-> rate_min]

MsgOutOfRange(r) ==
    [kind |-> "out_of_range", value |-> r, min |-> rate_min, max |-> rate_max]
MsgVolatility(pct, last_rate, r) ==
    [kind |-> "volatility", change |-> pct, from |-> last_rate, to |-> r,
     threshold |-> change_threshold]
MsgNormal == [kind |-> "normal"]

\* record.get("rate") of an Optional record
RateOf(record) == IF IsNone(record) THEN None ELSE Val(record).rate

\* Python's "last_rate and last_rate > 0"
Truthy(x) == ~IsNone(x) /\ Val(x) # 0
\* Mutant of Comparable: a stored rate of zero is compared against.
Comparable_ZeroIncluded(last_rate) == ~IsNone(last_rate) /\ Val(last_rate) >= 0

Comparable(last_rate) == Truthy(last_rate) /\ Val(last_rate) > 0

\* Mutant of ChangePct: the size of the change, without its sign.
ChangePct_Unsigned(r, last_rate) == Frac(Abs(r - last_rate) * 100, last_rate)

\* (rate - last_rate) / last_rate * 100
ChangePct(r, last_rate) == Frac((r - last_rate) * 100, last_rate)

\* Mutant of Excessive: a change equal to the threshold is excessive too.
Excessive_OrEqual(pct) ==
    FracAbs(pct).num >= change_threshold * FracAbs(pct).den

\* Mutant of Excessive: only a rise is excessive (no abs).
Excessive_RisesOnly(pct) == FracGtInt(pct, change_threshold)

\* abs(change_pct) > self.change_threshold
Excessive(pct) == FracGtInt(FracAbs(pct), change_threshold)

\* the volatility part of validate_rate, for a rate that passed the
\* None, sign and range checks
CheckVolatility(file, r, from_currency, to_currency, check_volatility, rd) ==
    LET last_record ==
            IF check_volatility
            THEN GetLastRate(file, from_currency, to_currency, rd)
            ELSE None
        last_rate == RateOf(last_record)
        lookups == IF check_volatility THEN 1 ELSE 0
    IN  IF Comparable(last_rate)
        THEN LET pct == ChangePct(r, Val(last_rate))
             IN  IF Excessive(pct)
                 THEN Verdict(FALSE, MsgVolatility(pct, Val(last_rate), r),
                              Some(pct), lookups)
                 ELSE Verdict(TRUE, MsgNormal, Some(pct), lookups)
        ELSE Verdict(TRUE, MsgNormal, None, lookups)

\* Mutant of ValidateRate: the sign check lets zero through.
ValidateRate_StrictSign(file, rate, from_currency, to_currency, check_volatility, rd) ==
    IF IsNone(rate)
    THEN Verdict(FALSE, MsgEmpty, None, 0)
    ELSE IF Val(rate) < 0
    THEN Verdict(FALSE, MsgNotPositive(Val(rate)), None, 0)
    ELSE IF Val(rate) < rate_min \/ Val(rate) > rate_max
    THEN Verdict(FALSE, MsgOutOfRange(Val(rate)), None, 0)
    ELSE CheckVolatility(file, Val(rate), from_currency, to_currency,
                         check_volatility, rd)

\* Mutant of ValidateRate: the range check excludes the two bounds.
ValidateRate_ExclusiveBounds(file, rate, from_currency, to_currency, check_volatility, rd) ==
    IF IsNone(rate)
    THEN Verdict(FALSE, MsgEmpty, None, 0)
    ELSE IF Val(rate) <= 0
    THEN Verdict(FALSE, MsgNotPositive(Val(rate)), None, 0)
    ELSE IF Val(rate) <= rate_min \/ Val(rate) >= rate_max
    THEN Verdict(FALSE, MsgOutOfRange(Val(rate)), None, 0)
    ELSE CheckVolatility(file, Val(rate), from_currency, to_currency,
                         check_volatility, rd)

\* Mutant of ValidateRate: an absent rate is taken for zero ("if not rate").
ValidateRate_NoneAsZero(file, rate, from_currency, to_currency, check_volatility, rd) ==
    IF IsNone(rate)
    THEN Verdict(FALSE, MsgNotPositive(0), None, 0)
    ELSE IF Val(rate) <= 0
    THEN Verdict(FALSE, MsgNotPositive(Val(rate)), None, 0)
    ELSE IF Val(rate) < rate_min \/ Val(rate) > rate_max
    THEN Verdict(FALSE, MsgOutOfRange(Val(rate)), None, 0)
    ELSE CheckVolatility(file, Val(rate), from_currency, to_currency,
                         check_volatility, rd)

\* Mutant of ValidateRate: the range check has no upper bound.
ValidateRate_NoUpperBound(file, rate, from_currency, to_currency, check_volatility, rd) ==
    IF IsNone(rate)
    THEN Verdict(FALSE, MsgEmpty, None, 0)
    ELSE IF Val(rate) <= 0
    THEN Verdict(FALSE, MsgNotPositive(Val(rate)), None, 0)
    ELSE IF Val(rate) < rate_min
    THEN Verdict(FALSE, MsgOutOfRange(Val(rate)), None, 0)
    ELSE CheckVolatility(file, Val(rate), from_currency, to_currency,
                         check_volatility, rd)

ValidateRate(file, rate, from_currency, to_currency, check_volatility, rd) ==
    IF IsNone(rate)
    THEN Verdict(FALSE, MsgEmpty, None, 0)
    ELSE IF Val(rate) <= 0
    THEN Verdict(FALSE, MsgNotPositive(Val(rate)), None, 0)
    ELSE IF Val(rate) < rate_min \/ Val(rate) > rate_max
    THEN Verdict(FALSE, MsgOutOfRange(Val(rate)), None, 0)
    ELSE CheckVolatility(file, Val(rate), from_currency, to_currency,
                         check_volatility, rd)

-----------------------------------------------------------------------------
(* record_rate, check_and_record, get_rate_history, clean_old_records      *)

\* the record written for a pair; t is datetime.now()
RatePoint(rate, t, update_time) ==
    [rate |-> rate, timestamp |-> Some(t), update_time |-> update_time]

\* Mutant of RecordRate: a pair that has a record keeps it.
RecordRate_KeepsFirst(file, rate, from_currency, to_currency, update_time, t, rd, wr) ==
    LET history == LoadHistory(file, rd)
        key == CurrencyKey(from_currency, to_currency)
    IN  IF DictHas(history, key)
        THEN SaveHistory(file, history, wr)
        ELSE SaveHistory(file,
                         DictSet(history, key, RatePoint(rate, t, update_time)),
                         wr)

\* record_rate: the new content of the file
RecordRate(file, rate, from_currency, to_currency, update_time, t, rd, wr) ==
    LET history == LoadHistory(file, rd)
        key == CurrencyKey(from_currency, to_currency)
    IN  SaveHistory(file, DictSet(history, key, RatePoint(rate, t, update_time)),
                    wr)

\* Mutant of ValidateRateEffect: validation records the rate it accepts.
ValidateRateEffect_Records(file, rate, from_currency, to_currency, check_volatility, rd) ==
    IF ValidateRate(file, rate, from_currency, to_currency, check_volatility,
                    rd).ok
    THEN RecordRate(file, rate, from_currency, to_currency, "", 0, rd, "ok")
    ELSE file

\* Mutant of ValidateRateEffect: validation records the rate it rejects
\* for an excessive change.
ValidateRateEffect_RecordsRejected(file, rate, from_currency, to_currency, check_volatility, rd) ==
    IF ValidateRate(file, rate, from_currency, to_currency, check_volatility,
                    rd).message.kind = "volatility"
    THEN RecordRate(file, rate, from_currency, to_currency, "", 0, rd, "ok")
    ELSE file

\* The content of the file after validate_rate: neither validate_rate nor
\* get_last_rate nor load_history writes.
ValidateRateEffect(file, rate, from_currency, to_currency, check_volatility, rd) == file

\* Outcomes of the reads and of the write of one check_and_record: r1 the
\* load of its own get_last_rate, r2 the load inside validate_rate, r3 the
\* load inside record_rate, w the write of record_rate.
IOs == [r1 : BOOLEAN, r2 : BOOLEAN, r3 : BOOLEAN, w : WriteOutcomes]

\* send_alert_func: None, a callback that returns, a callback that raises
AlertFuncs == {"none", "returns", "raises"}

\* Mutant of CheckAndRecordOutcome: the rate is recorded and the callback
\* invoked whatever validate_rate said.
CheckAndRecordOutcome_Unconditional(v, last_rate, file, rate, from_currency, to_currency, update_time, send_alert_func, t, io) ==
    [result |->
        [success |-> v.ok, message |-> v.message, rate |-> rate,
         last_rate |-> last_rate, change_pct |-> v.change_pct,
         alert_sent |-> send_alert_func = "returns"],
     file |-> RecordRate(file, rate, from_currency, to_currency, update_time,
                         t, io.r3, io.w),
     alerts |->
        IF send_alert_func # "none"
        THEN << <<v.message, rate, v.change_pct>> >>
        ELSE << >>,
     records |-> 1,
     raised |-> FALSE]

\* Mutant of CheckAndRecordOutcome: the callback is called outside the
\* try, so its exception leaves check_and_record.
CheckAndRecordOutcome_NoTry(v, last_rate, file, rate, from_currency, to_currency, update_time, send_alert_func, t, io) ==
    [result |->
        [success |-> v.ok, message |-> v.message, rate |-> rate,
         last_rate |-> last_rate, change_pct |-> v.change_pct,
         alert_sent |-> ~v.ok /\ send_alert_func = "returns"],
     file |->
        IF v.ok
        THEN RecordRate(file, rate, from_currency, to_currency, update_time,
                        t, io.r3, io.w)
        ELSE file,
     alerts |->
        IF ~v.ok /\ send_alert_func # "none"
        THEN << <<v.message, rate, v.change_pct>> >>
        ELSE << >>,
     records |-> IF v.ok THEN 1 ELSE 0,
     raised |-> ~v.ok /\ send_alert_func = "raises"]

\* Mutant of CheckAndRecordOutcome: alert_sent is set before the callback
\* is called.
CheckAndRecordOutcome_SentOnInvoke(v, last_rate, file, rate, from_currency, to_currency, update_time, send_alert_func, t, io) ==
    [result |->
        [success |-> v.ok, message |-> v.message, rate |-> rate,
         last_rate |-> last_rate, change_pct |-> v.change_pct,
         alert_sent |-> ~v.ok /\ send_alert_func # "none"],
     file |->
        IF v.ok
        THEN RecordRate(file, rate, from_currency, to_currency, update_time,
                        t, io.r3, io.w)
        ELSE file,
     alerts |->
        IF ~v.ok /\ send_alert_func # "none"
        THEN << <<v.message, rate, v.change_pct>> >>
        ELSE << >>,
     records |-> IF v.ok THEN 1 ELSE 0,
     raised |-> FALSE]

\* check_and_record after its calls of get_last_rate (last_rate) and of
\* validate_rate (v): the returned dict (result), the new content of the
\* file, the calls of send_alert_func (their arguments, in order), the
\* number of calls of record_rate, and whether an exception leaves the
\* call (raised): the callback is called inside try / except Exception, and
\* alert_sent is set after it returned
CheckAndRecordOutcome(v, last_rate, file, rate, from_currency, to_currency, update_time, send_alert_func, t, io) ==
    [result |->
        [success |-> v.ok, message |-> v.message, rate |-> rate,
         last_rate |-> last_rate, change_pct |-> v.change_pct,
         alert_sent |-> ~v.ok /\ send_alert_func = "returns"],
     file |->
        IF v.ok
        THEN RecordRate(file, rate, from_currency, to_currency, update_time,
                        t, io.r3, io.w)
        ELSE file,
     alerts |->
        IF ~v.ok /\ send_alert_func # "none"
        THEN << <<v.message, rate, v.change_pct>> >>
        ELSE << >>,
     records |-> IF v.ok THEN 1 ELSE 0,
     raised |-> FALSE]

\* check_and_record
CheckAndRecord(file, rate, from_currency, to_currency, update_time, send_alert_func, t, io) ==
    CheckAndRecordOutcome(
        ValidateRate(file, rate, from_currency, to_currency, TRUE, io.r2),
        RateOf(GetLastRate(file, from_currency, to_currency, io.r1)),
        file, rate, from_currency, to_currency, update_time,
        send_alert_func, t, io)

\* get_rate_history: the returned list
GetRateHistory(file, from_currency, to_currency, rd) ==
    LET last_record == GetLastRate(file, from_currency, to_currency, rd)
    IN  IF IsNone(last_record) THEN << >> ELSE <<Val(last_record)>>

\* clean_old_records: the new content of the file.  A timestamp that is
\* missing or does not parse is None.
CleanOldRecords(file, days, t, rd, wr) ==
    LET history == LoadHistory(file, rd)
        cutoff_date == t - days
        cleaned ==
            {e \in history :
                IF IsNone(e.rec.timestamp)
                THEN TRUE
                ELSE Val(e.rec.timestamp) > cutoff_date}
    IN  SaveHistory(file, cleaned, wr)

-----------------------------------------------------------------------------
(* Inputs                                                                  *)

FromCurrencies == {"CNY"}
ToCurrencies == {"PHP", "MYR"}
UpdateTimes == {"", "2024-01-15 10:30:00"}

\* Rates offered to validate_rate, in units of 0.005: absent, negative,
\* zero, positive below rate_min, the two bounds, above rate_max, and 10.00
\* with the rates 5% and just over 5% above and below it.
RateInputs ==
    {None} \cup
    {Some(r) : r \in {-200, 0, rate_min - 1, rate_min, 1899, 1900, 2000,
                      2100, 2101, rate_max, rate_max + 1}}

\* Rates offered to check_and_record: absent, zero, 10.00, 10.50 (5% above
\* 10.00), 10.505, above rate_max.
CheckedRates ==
    {None, Some(0), Some(2000), Some(2100), Some(2101), Some(rate_max + 1)}

\* Rates offered to record_rate, which records whatever it is given.
RecordedRates == {None, Some(2000)}

\* the retention periods offered to clean_old_records
DaysInputs == 0 .. MaxTime

\* the times a call made now or later can read from the clock
Clock == {t \in now .. now + 1 : t <= MaxTime}

-----------------------------------------------------------------------------
(* State: store is the content of the history file, now the clock, call    *)
(* the last call made to the monitor with what it returned; repeat says    *)
(* that a record_rate follows a record_rate with the same arguments        *)

\* The file is missing, or was left by an earlier run; a record of an
\* earlier run may carry a timestamp that does not parse.
InitStores ==
    { {},
      {[key |-> "CNY_PHP",
        rec |-> [rate |-> Some(2000), timestamp |-> None, update_time |-> ""]]} }

Init ==
    /\ store \in InitStores
    /\ now = 0
    /\ call = [op |-> "init"]

\* In Spec the file system does not fail: every read and write succeeds.
RecordRateCall ==
    \E rate \in RecordedRates, f \in FromCurrencies, t \in ToCurrencies,
       ut \in UpdateTimes, tm \in Clock :
        /\ call' = [op |-> "record_rate", rate |-> rate, from |-> f, to |-> t,
                    update_time |-> ut,
                    repeat |-> /\ call.op = "record_rate"
                               /\ call.rate = rate
                               /\ call.from = f
                               /\ call.to = t
                               /\ call.update_time = ut]
        /\ store' = RecordRate(store, rate, f, t, ut, tm, TRUE, "ok")
        /\ now' = tm

NoFault == [r1 |-> TRUE, r2 |-> TRUE, r3 |-> TRUE, w |-> "ok"]

\* check_and_record is called without update_time, which is then "".
CheckAndRecordCall ==
    \E rate \in CheckedRates, f \in FromCurrencies, t \in ToCurrencies,
       fn \in AlertFuncs, tm \in Clock :
        \E out \in {CheckAndRecord(store, rate, f, t, "", fn, tm, NoFault)} :
            /\ call' = [op |-> "check_and_record", rate |-> rate, from |-> f,
                        to |-> t, send_alert_func |-> fn, ret |-> out.result,
                        alerts |-> out.alerts, records |-> out.records,
                        raised |-> out.raised]
            /\ store' = out.file
            /\ now' = tm

CleanOldRecordsCall ==
    \E days \in DaysInputs, tm \in Clock :
        /\ call' = [op |-> "clean_old_records", days |-> days]
        /\ store' = CleanOldRecords(store, days, tm, TRUE, "ok")
        /\ now' = tm

Next ==
    \/ RecordRateCall
    \/ CheckAndRecordCall
    \/ CleanOldRecordsCall

Spec == Init /\ [][Next]_vars

-----------------------------------------------------------------------------
(* validate_rate as a function of the file and of its arguments            *)

\* what record_rate may have left for a pair: no rate, a rate of zero, a
\* negative rate, 10.00, rate_max
StoredRates == {None, Some(0), Some(-200), Some(2000), Some(rate_max)}

Keys == {CurrencyKey(f, t) : f \in FromCurrencies, t \in ToCurrencies}

\* the files that hold, for each pair of a set of pairs, one record
ValidateStores ==
    UNION { { {[key |-> k, rec |-> RatePoint(c[k], 0, "")] : k \in ks} :
               c \in [ks -> StoredRates] } :
            ks \in SUBSET Keys }

InitValidate ==
    /\ store \in ValidateStores
    /\ now = 0
    /\ call = [op |-> "init"]

ValidateRateCall ==
    \E rate \in RateInputs, f \in FromCurrencies, t \in ToCurrencies,
       cv \in BOOLEAN, rd \in BOOLEAN :
        /\ call' = [op |-> "validate_rate", rate |-> rate, from |-> f,
                    to |-> t, check_volatility |-> cv, rd |-> rd,
                    ret |-> ValidateRate(store, rate, f, t, cv, rd)]
        /\ store' = ValidateRateEffect(store, rate, f, t, cv, rd)
        /\ UNCHANGED now

GetRateHistoryCall ==
    \E f \in FromCurrencies, t \in ToCurrencies, rd \in BOOLEAN :
        /\ call' = [op |-> "get_rate_history", from |-> f, to |-> t,
                    rd |-> rd, ret |-> GetRateHistory(store, f, t, rd)]
        /\ UNCHANGED <<store, now>>

NextValidate ==
    \/ ValidateRateCall
    \/ GetRateHistoryCall

SpecValidate == InitValidate /\ [][NextValidate]_vars

-----------------------------------------------------------------------------
(* Properties of check_and_record, record_rate and the store (Spec)        *)

\* C1: check_and_record invokes send_alert_func, when one is given, if and
\* only if validate_rate rejected the rate.  On acceptance the callback is
\* not invoked and record_rate is called exactly once; on rejection
\* record_rate is not called and the store is left as it was.
C1_AlertIffRejected ==
    [][call'.op = "check_and_record" =>
        LET v == ValidateRate(store, call'.rate, call'.from, call'.to, TRUE, TRUE)
        IN  /\ call'.ret.success = v.ok
            /\ Len(call'.alerts) =
                  (IF ~v.ok /\ call'.send_alert_func # "none" THEN 1 ELSE 0)
            /\ call'.records = (IF v.ok THEN 1 ELSE 0)
            /\ ~v.ok => store' = store]_vars

\* a rejected rate (too far from the stored one) with the callback invoked,
\* nothing recorded: the stored rate is still the one compared against
C1_Witness ==
    /\ call.op = "check_and_record"
    /\ ~call.ret.success
    /\ call.ret.message.kind = "volatility"
    /\ Len(call.alerts) = 1
    /\ call.records = 0
    /\ RateOf(GetLastRate(store, call.from, call.to, TRUE)) = call.ret.last_rate

\* the rate the file holds for a pair, None when it holds none
StoredRate(file, from_currency, to_currency) ==
    RateOf(DictGet(file, CurrencyKey(from_currency, to_currency)))

\* the items a file holds for a key
Entries(file, k) == {e \in file : e.key = k}

\* a call that records its rate for its pair
Recording(c) ==
    \/ c.op = "record_rate"
    \/ c.op = "check_and_record" /\ c.ret.success

C10_RecordRateIdempotent ==
    [][(/\ call.op = "record_rate"
        /\ call'.op = "record_rate"
        /\ call'.rate = call.rate
        /\ call'.from = call.from
        /\ call'.to = call.to
        /\ call'.update_time = call.update_time)
       => LET k == CurrencyKey(call'.from, call'.to)
              Observable(e) ==
                  [key |-> e.key, rate |-> e.rec.rate,
                   update_time |-> e.rec.update_time]
          IN  /\ Cardinality(store') = Cardinality(store)
              /\ Cardinality(Entries(store', k)) = 1
              /\ {Observable(e) : e \in store'} = {Observable(e) : e \in store}
              /\ \A e \in Entries(store', k) :
                    /\ e.rec.rate = call'.rate
                    /\ e.rec.update_time = call'.update_time
              /\ store' \ Entries(store', k) = store \ Entries(store, k)]_vars

\* a second record_rate with the same arguments, made later than the entry
\* of the other pair was written
C10_Witness ==
    /\ call.op = "record_rate"
    /\ call.repeat
    /\ Cardinality(store) = 2
    /\ \E e \in store :
          /\ e.key = CurrencyKey(call.from, call.to)
          /\ e.rec.timestamp = Some(now)
    /\ \E e \in store :
          /\ e.key # CurrencyKey(call.from, call.to)
          /\ e.rec.timestamp # Some(now)

-----------------------------------------------------------------------------
(* Properties of validate_rate (SpecValidate)                              *)

\* a validate_rate call that reads the file and finds a positive rate for
\* its pair, given a rate within [rate_min, rate_max]
ComparedCall(file, c) ==
    /\ c.op = "validate_rate"
    /\ c.check_volatility
    /\ c.rd
    /\ ~IsNone(c.rate)
    /\ Val(c.rate) >= rate_min
    /\ Val(c.rate) <= rate_max
    /\ ~IsNone(StoredRate(file, c.from, c.to))
    /\ Val(StoredRate(file, c.from, c.to)) > 0

\* C2: for an in-range rate R_new and a stored rate R_old > 0 of the same
\* pair with abs((R_new - R_old) / R_old * 100) > change_threshold,
\* validate_rate rejects for excessive change and returns the signed
\* percentage (R_new - R_old) / R_old * 100, negative when the rate fell.
C2_ExcessiveChangeRejected ==
    [][ComparedCall(store, call') =>
        LET Rn == Val(call'.rate)
            Ro == Val(StoredRate(store, call'.from, call'.to))
        IN  Abs(Rn - Ro) * 100 > change_threshold * Ro =>
                /\ ~call'.ret.ok
                /\ call'.ret.message.kind = "volatility"
                /\ call'.ret.change_pct = Some(Frac((Rn - Ro) * 100, Ro))
                /\ (Val(call'.ret.change_pct).num < 0) <=> (Rn < Ro)]_vars

\* 9.495 against a stored 10.00 is rejected with -5.05%
C2_Witness ==
    /\ call.op = "validate_rate"
    /\ call.rate = Some(1899)
    /\ StoredRate(store, call.from, call.to) = Some(2000)
    /\ ~call.ret.ok
    /\ call.ret.change_pct = Some([num |-> -101, den |-> 20])

C4_NonPositiveRejected ==
    (/\ call.op = "validate_rate"
     /\ ~IsNone(call.rate)
     /\ Val(call.rate) <= 0)
    => /\ ~call.ret.ok
       /\ call.ret.message = [kind |-> "not_positive", value |-> Val(call.rate)]
       /\ call.ret.change_pct = None
       /\ call.ret.lookups = 0

\* zero is rejected although the file holds 10.00 for the pair
C4_Witness ==
    /\ call.op = "validate_rate"
    /\ call.rate = Some(0)
    /\ call.check_volatility
    /\ call.rd
    /\ StoredRate(store, call.from, call.to) = Some(2000)
    /\ call.ret.message.kind = "not_positive"

\* C5 as stated: every rate below rate_min or above rate_max is rejected
\* with the out-of-range reason citing the value and the two bounds, and no
\* change percentage.
C5_OutOfRangeRejected ==
    (/\ call.op = "validate_rate"
     /\ ~IsNone(call.rate)
     /\ (Val(call.rate) < rate_min \/ Val(call.rate) > rate_max))
    => /\ ~call.ret.ok
       /\ call.ret.message =
             [kind |-> "out_of_range", value |-> Val(call.rate),
              min |-> rate_min, max |-> rate_max]
       /\ call.ret.change_pct = None

\* C5 amended: every positive rate below rate_min or above rate_max is
\* rejected with the out-of-range reason citing the value and the two
\* bounds, and no change percentage.
C5_PositiveOutOfRangeRejected ==
    (/\ call.op = "validate_rate"
     /\ ~IsNone(call.rate)
     /\ Val(call.rate) > 0
     /\ (Val(call.rate) < rate_min \/ Val(call.rate) > rate_max))
    => /\ ~call.ret.ok
       /\ call.ret.message =
             [kind |-> "out_of_range", value |-> Val(call.rate),
              min |-> rate_min, max |-> rate_max]
       /\ call.ret.change_pct = None

\* 0.005, positive and below rate_min, is rejected as out of range
C5_Witness ==
    /\ call.op = "validate_rate"
    /\ call.rate = Some(rate_min - 1)
    /\ Val(call.rate) > 0
    /\ call.ret.message.kind = "out_of_range"

\* C6: a rate with rate_min <= rate <= rate_max, the bounds included, and no
\* stored value for the pair is accepted with no change percentage.
C6_InRangeNoPriorAccepted ==
    [][(/\ call'.op = "validate_rate"
        /\ ~IsNone(call'.rate)
        /\ Val(call'.rate) >= rate_min
        /\ Val(call'.rate) <= rate_max
        /\ ~DictHas(store, CurrencyKey(call'.from, call'.to)))
       => /\ call'.ret.ok
          /\ call'.ret.message.kind = "normal"
          /\ call'.ret.change_pct = None]_vars

\* rate_min itself is accepted for a pair the file does not hold, while the
\* file holds the other pair
C6_Witness ==
    /\ call.op = "validate_rate"
    /\ call.rate = Some(rate_min)
    /\ call.check_volatility
    /\ call.rd
    /\ ~DictHas(store, CurrencyKey(call.from, call.to))
    /\ store # {}
    /\ call.ret.ok

\* C7: an absent rate is rejected with the "rate value is empty" reason and
\* no change percentage, without a lookup.
C7_AbsentRateRejected ==
    (call.op = "validate_rate" /\ IsNone(call.rate))
    => /\ ~call.ret.ok
       /\ call.ret.message = [kind |-> "empty"]
       /\ call.ret.change_pct = None
       /\ call.ret.lookups = 0

\* an absent rate is rejected although the file holds 10.00 for the pair
C7_Witness ==
    /\ call.op = "validate_rate"
    /\ IsNone(call.rate)
    /\ call.check_volatility
    /\ call.rd
    /\ StoredRate(store, call.from, call.to) = Some(2000)
    /\ call.ret.message.kind = "empty"

\* C8: validate_rate leaves the file as it was, whether it accepts or
\* rejects.
C8_ValidateWritesNothing ==
    [][call'.op = "validate_rate" => store' = store]_vars

\* 10.50 is accepted against a stored 10.00, which is still what the file
\* holds
C8_Witness ==
    /\ call.op = "validate_rate"
    /\ call.ret.ok
    /\ call.rate = Some(2100)
    /\ StoredRate(store, call.from, call.to) = Some(2000)

-----------------------------------------------------------------------------
(* clean_old_records                                                       *)

\* C11: clean_old_records(days) removes exactly the entries whose timestamp
\* is strictly older than now - days; every other entry (timestamp equal to
\* the cutoff, missing, or not parsable) is kept unchanged.
C11_RemovesStrictlyOlder ==
    [][call'.op = "clean_old_records" =>
        store' = {e \in store :
                    ~(/\ ~IsNone(e.rec.timestamp)
                      /\ Val(e.rec.timestamp) < now' - call'.days)}]_vars

\* what clean_old_records does instead: an entry whose timestamp equals the
\* cutoff is removed with the older ones
C11_RemovesNotNewer ==
    [][call'.op = "clean_old_records" =>
        store' = {e \in store :
                    ~(/\ ~IsNone(e.rec.timestamp)
                      /\ Val(e.rec.timestamp) <= now' - call'.days)}]_vars

-----------------------------------------------------------------------------
(* The baseline of the volatility check: record_rate and validate_rate     *)
(* called in any order on a file that starts missing.  The last call       *)
(* carries, for each pair, the rate that record_rate was last given        *)
(* (base) and the number of validations rejected for that pair since       *)
(* (rejected).                                                             *)

\* the rejected validations counted for a pair
MaxRejected == 2

\* 7.85 and 10.00 are recorded
BaselineRecorded == {Some(1570), Some(2000)}

\* 7.85, 8.00, 8.50 and 10.00 are validated
BaselineValidated == {Some(1570), Some(1600), Some(1700), Some(2000)}

InitBaseline ==
    /\ store = {}
    /\ now = 0
    /\ call = [op |-> "init",
               base |-> [k \in Keys |-> None],
               rejected |-> [k \in Keys |-> 0]]

BaselineRecordRateCall ==
    \E rate \in BaselineRecorded, f \in FromCurrencies, t \in ToCurrencies :
        /\ call' = [op |-> "record_rate", rate |-> rate, from |-> f, to |-> t,
                    base |-> [call.base EXCEPT ![CurrencyKey(f, t)] = rate],
                    rejected |-> [call.rejected EXCEPT ![CurrencyKey(f, t)] = 0]]
        /\ store' = RecordRate(store, rate, f, t, "", now, TRUE, "ok")
        /\ UNCHANGED now

BaselineValidateRateCall ==
    \E rate \in BaselineValidated, f \in FromCurrencies, t \in ToCurrencies :
        \E v \in {ValidateRate(store, rate, f, t, TRUE, TRUE)} :
            /\ call' = [op |-> "validate_rate", rate |-> rate, from |-> f,
                        to |-> t, ret |-> v, base |-> call.base,
                        rejected |->
                            [call.rejected EXCEPT ![CurrencyKey(f, t)] =
                                IF ~v.ok /\ @ < MaxRejected THEN @ + 1 ELSE @]]
            /\ store' = ValidateRateEffect(store, rate, f, t, TRUE, TRUE)
            /\ UNCHANGED now

NextBaseline ==
    \/ BaselineRecordRateCall
    \/ BaselineValidateRateCall

SpecBaseline == InitBaseline /\ [][NextBaseline]_vars

\* C12: a rejected validation does not change the baseline.  A validation
\* of r for a pair whose last recorded rate is R > 0 is compared against R,
\* however many validations were rejected since: its change is
\* (r - R) / R * 100 and it is accepted iff |r - R| * 100 <= 5 * R.  After
\* record(7.85), validate(8.5) is rejected with a change of about +8.28%
\* and validate(8.0) is accepted with a change of about +1.91%.
C12_RejectionKeepsBaseline ==
    (/\ call.op = "validate_rate"
     /\ ~IsNone(call.base[CurrencyKey(call.from, call.to)]))
    => LET R == Val(call.base[CurrencyKey(call.from, call.to)])
           r == Val(call.rate)
           pct == Val(call.ret.change_pct)
       IN  /\ call.ret.change_pct = Some(Frac((r - R) * 100, R))
           /\ call.ret.ok = (Abs(r - R) * 100 <= change_threshold * R)
           /\ ~call.ret.ok => call.ret.message = MsgVolatility(pct, R, r)
           /\ (R = 1570 /\ r = 1700) =>
                 /\ ~call.ret.ok
                 /\ 828 * pct.den <= 100 * pct.num
                 /\ 100 * pct.num < 829 * pct.den
           /\ (R = 1570 /\ r = 1600) =>
                 /\ call.ret.ok
                 /\ 191 * pct.den <= 100 * pct.num
                 /\ 100 * pct.num < 192 * pct.den

\* after record(7.85) and two rejected validations for the pair, 8.00 is
\* accepted against 7.85
C12_Witness ==
    /\ call.op = "validate_rate"
    /\ call.base[CurrencyKey(call.from, call.to)] = Some(1570)
    /\ call.rejected[CurrencyKey(call.from, call.to)] = MaxRejected
    /\ call.rate = Some(1600)
    /\ call.ret.ok
    /\ call.ret.change_pct = Some([num |-> 300, den |-> 157])

-----------------------------------------------------------------------------
(* Failing reads and writes of the history file                            *)

\* C15: when the history file cannot be read (missing, or the read
\* raises), load_history yields an empty history, validate_rate skips the
\* volatility check, and every positive rate within the range is accepted
\* with an absent change percentage, whatever the file holds.
C15_UnreadableStoreAcceptsInRange ==
    (call.op = "validate_rate" /\ ~call.rd)
    => /\ LoadHistory(store, call.rd) = {}
       /\ IsNone(GetLastRate(store, call.from, call.to, call.rd))
       /\ (/\ ~IsNone(call.rate)
           /\ Val(call.rate) > 0
           /\ Val(call.rate) >= rate_min
           /\ Val(call.rate) <= rate_max)
          => /\ call.ret.ok
             /\ call.ret.message = MsgNormal
             /\ call.ret.change_pct = None

\* the file holds 10.00 for the pair but cannot be read: 0.01 is accepted
\* without a change percentage
C15_Witness ==
    /\ call.op = "validate_rate"
    /\ ~call.rd
    /\ call.check_volatility
    /\ StoredRate(store, call.from, call.to) = Some(2000)
    /\ call.rate = Some(rate_min)
    /\ call.ret.ok
    /\ call.ret.change_pct = None

\* In SpecFaults every read and every write of a call may fail: the load
\* finds no file or raises, the write fails before the file is opened for
\* writing or after.  The last call carries the outcomes it met (rd, wr,
\* io).
FaultRecordedRates == {Some(2000)}
FaultCheckedRates == {None, Some(2000), Some(2101)}

InitFaults ==
    /\ store \in InitStores
    /\ now = 0
    /\ call = [op |-> "init"]

FaultyRecordRateCall ==
    \E rate \in FaultRecordedRates, f \in FromCurrencies, t \in ToCurrencies,
       rd \in BOOLEAN, wr \in WriteOutcomes :
        /\ call' = [op |-> "record_rate", rate |-> rate, from |-> f, to |-> t,
                    rd |-> rd, wr |-> wr, raised |-> FALSE]
        /\ store' = RecordRate(store, rate, f, t, "", now, rd, wr)
        /\ UNCHANGED now

FaultyCheckAndRecordCall ==
    \E rate \in FaultCheckedRates, f \in FromCurrencies, t \in ToCurrencies,
       fn \in AlertFuncs, io \in IOs :
        \E out \in {CheckAndRecord(store, rate, f, t, "", fn, now, io)} :
            /\ call' = [op |-> "check_and_record", rate |-> rate, from |-> f,
                        to |-> t, send_alert_func |-> fn, io |-> io,
                        ret |-> out.result, alerts |-> out.alerts,
                        records |-> out.records, raised |-> out.raised]
            /\ store' = out.file
            /\ UNCHANGED now

FaultyCleanOldRecordsCall ==
    \E days \in DaysInputs, rd \in BOOLEAN, wr \in WriteOutcomes :
        /\ call' = [op |-> "clean_old_records", days |-> days, rd |-> rd,
                    wr |-> wr, raised |-> FALSE]
        /\ store' = CleanOldRecords(store, days, now, rd, wr)
        /\ UNCHANGED now

NextFaults ==
    \/ FaultyRecordRateCall
    \/ FaultyCheckAndRecordCall
    \/ FaultyCleanOldRecordsCall

SpecFaults == InitFaults /\ [][NextFaults]_vars

\* The reject callback of check_and_record

\* C13: if the reject callback raises, the exception does not leave
\* check_and_record, the returned success (false), message, rate and
\* change_pct are those returned when the callback returns or is absent,
\* and the store stays as it was.  This holds whatever the reads of the
\* call yield.
C13_RaisingCallbackContained ==
    [][(/\ call'.op = "check_and_record"
        /\ call'.send_alert_func = "raises"
        /\ ~ValidateRate(store, call'.rate, call'.from, call'.to, TRUE,
                         call'.io.r2).ok)
       => /\ ~call'.raised
          /\ ~call'.ret.success
          /\ store' = store
          /\ \A fn \in {"none", "returns"} :
                LET o == CheckAndRecord(store, call'.rate, call'.from, call'.to,
                                        "", fn, now', call'.io).result
                IN  /\ call'.ret.success = o.success
                    /\ call'.ret.message = o.message
                    /\ call'.ret.rate = o.rate
                    /\ call'.ret.change_pct = o.change_pct]_vars

\* 10.505 is rejected against a stored 10.00, the callback is called and
\* raises, and the call returns its result
C13_Witness ==
    /\ call.op = "check_and_record"
    /\ call.send_alert_func = "raises"
    /\ Len(call.alerts) = 1
    /\ call.rate = Some(2101)
    /\ call.ret.message.kind = "volatility"
    /\ ~call.ret.success
    /\ ~call.raised
    /\ call.io = NoFault
    /\ StoredRate(store, call.from, call.to) = Some(2000)

\* C14: alert_sent is true exactly when the callback was invoked during the
\* call, also when the invoked callback raised, and false otherwise.
C14_AlertSentIffInvoked ==
    (call.op = "check_and_record")
    => (call.ret.alert_sent <=> Len(call.alerts) = 1)

\* C14, amended: alert_sent is true exactly when the callback was invoked
\* during the call and returned; it is false when no callback was invoked
\* and when the invoked callback raised.
C14_AlertSentIffReturned ==
    (call.op = "check_and_record")
    => (call.ret.alert_sent <=>
            (Len(call.alerts) = 1 /\ call.send_alert_func = "returns"))

\* a rejected rate whose callback is invoked and raises: alert_sent is
\* false
C14_Witness ==
    /\ call.op = "check_and_record"
    /\ ~call.ret.success
    /\ call.send_alert_func = "raises"
    /\ Len(call.alerts) = 1
    /\ ~call.ret.alert_sent

\* the write of the step's call failed: the write of record_rate, or the
\* write of the record_rate that check_and_record calls for a rate its
\* validate_rate accepted
WriteFailed(file, c) ==
    \/ c.op = "record_rate" /\ c.wr # "ok"
    \/ /\ c.op = "check_and_record"
       /\ c.io.w # "ok"
       /\ ValidateRate(file, c.rate, c.from, c.to, TRUE, c.io.r2).ok

\* C16: when writing the history file fails, record_rate and
\* check_and_record do not raise, check_and_record still returns
\* success = true for the accepted rate, and the file keeps its previous
\* content.
C16_FailedWriteKeepsStore ==
    [][WriteFailed(store, call') =>
        /\ ~call'.raised
        /\ call'.op = "check_and_record" => call'.ret.success
        /\ store' = store]_vars

\* what holds of a failed write: nothing is raised, check_and_record
\* returns success = true, and the file keeps its previous content when
\* the write failed before the file was opened for writing, and holds
\* no history when it failed after
C16_FailedWriteKeepsOrEmpties ==
    [][WriteFailed(store, call') =>
        /\ ~call'.raised
        /\ call'.op = "check_and_record" => call'.ret.success
        /\ LET w == IF call'.op = "record_rate" THEN call'.wr ELSE call'.io.w
           IN  store' = (IF w = "open_failed" THEN store ELSE {})]_vars

-----------------------------------------------------------------------------
(* When the volatility check is skipped                                    *)

\* the rate is positive and within [rate_min, rate_max]
InRange(rate) ==
    /\ ~IsNone(rate)
    /\ Val(rate) > 0
    /\ Val(rate) >= rate_min
    /\ Val(rate) <= rate_max

\* C19: the volatility check is skipped, and a positive rate within the
\* range is accepted with an absent change percentage, whenever
\* check_volatility is false, or the file has no entry for the pair, or
\* the entry's rate is missing, zero or negative; with check_volatility
\* false the file is not looked at and the decision is the same for every
\* content of the file.
C19_VolatilityCheckSkipped ==
    (call.op = "validate_rate")
    => /\ (/\ InRange(call.rate)
           /\ \/ ~call.check_volatility
              \/ Entries(store, CurrencyKey(call.from, call.to)) = {}
              \/ IsNone(StoredRate(store, call.from, call.to))
              \/ Val(StoredRate(store, call.from, call.to)) <= 0)
          => /\ call.ret.ok
             /\ call.ret.message = MsgNormal
             /\ call.ret.change_pct = None
       /\ ~call.check_volatility
          => /\ call.ret.lookups = 0
             /\ \A file \in ValidateStores :
                   ValidateRate(file, call.rate, call.from, call.to, FALSE,
                                call.rd) = call.ret

\* 0.01 is accepted without a change percentage against a stored rate of
\* zero, with the volatility check asked for and the file read
C19_Witness ==
    /\ call.op = "validate_rate"
    /\ call.check_volatility
    /\ call.rd
    /\ StoredRate(store, call.from, call.to) = Some(0)
    /\ call.rate = Some(rate_min)
    /\ call.ret.ok
    /\ call.ret.change_pct = None

-----------------------------------------------------------------------------
(* BaseBot: the exchange rate of a bot, validated and recorded in          *)
(* get_exchange_rate.  The bots share one history file; a bot's pair is    *)
(* target_currency ("CNY") and currency.                                   *)

\* base_bot.py: threshold in percent, bounds in units of 0.005
EXCHANGE_RATE_CHANGE_THRESHOLD == 5
EXCHANGE_RATE_MIN == 2
EXCHANGE_RATE_MAX == 2000000

\* _load_exchange_history: the content of the file, or {} when the file
\* is missing or the read raises (rd = FALSE)
LoadExchangeHistory(file, rd) == IF rd THEN file ELSE {}

\* _save_exchange_history: the new content of the file
SaveExchangeHistory(file, history, wr) ==
    CASE wr = "ok" -> history
      [] wr = "open_failed" -> file
      [] wr = "dump_failed" -> {}

\* What a call of validate_exchange_rate yields: the tuple
\* (is_valid, message), or the exception that leaves it.
BotVerdict(ok, message) == [raised |-> FALSE, ok |-> ok, message |-> message]
BotRaises(exc) == [raised |-> TRUE, ok |-> FALSE, message |-> [kind |-> exc]]

BotMsgNotPositive(r) == [kind |-> "not_positive", value |-> r]
BotMsgEmpty == [kind |-> "empty"]
BotMsgOutOfRange(r) ==
    [kind |-> "out_of_range", value |-> r, min |-> EXCHANGE_RATE_MIN,
     max |-> EXCHANGE_RATE_MAX]
BotMsgVolatility(pct, history_rate, r) ==
    [kind |-> "volatility", change |-> pct, from |-> history_rate, to |-> r,
     threshold |-> EXCHANGE_RATE_CHANGE_THRESHOLD]
BotMsgNormal == [kind |-> "normal"]

\* Mutant of ValidateExchangeRate: the change is compared with its sign, so
\* that no fall of the rate is excessive.
ValidateExchangeRate_Signed(rate, history_rate) ==
    IF IsNone(rate)
    THEN BotRaises("TypeError")
    ELSE IF Val(rate) <= 0
    THEN BotVerdict(FALSE, BotMsgNotPositive(Val(rate)))
    ELSE IF Val(rate) < EXCHANGE_RATE_MIN \/ Val(rate) > EXCHANGE_RATE_MAX
    THEN BotVerdict(FALSE, BotMsgOutOfRange(Val(rate)))
    ELSE IF Truthy(history_rate) /\ Val(history_rate) > 0
    THEN LET change_pct ==
                 Frac((Val(rate) - Val(history_rate)) * 100, Val(history_rate))
         IN  IF FracGtInt(change_pct, EXCHANGE_RATE_CHANGE_THRESHOLD)
             THEN BotVerdict(FALSE,
                             BotMsgVolatility(change_pct, Val(history_rate),
                                              Val(rate)))
             ELSE BotVerdict(TRUE, BotMsgNormal)
    ELSE BotVerdict(TRUE, BotMsgNormal)

\* validate_exchange_rate.  "rate <= 0" is evaluated first: with rate None
\* it raises TypeError, so the check "rate is None" that follows it is
\* never reached with None.
ValidateExchangeRate(rate, history_rate) ==
    IF IsNone(rate)
    THEN BotRaises("TypeError")
    ELSE IF Val(rate) <= 0
    THEN BotVerdict(FALSE, BotMsgNotPositive(Val(rate)))
    ELSE IF Val(rate) < EXCHANGE_RATE_MIN \/ Val(rate) > EXCHANGE_RATE_MAX
    THEN BotVerdict(FALSE, BotMsgOutOfRange(Val(rate)))
    ELSE IF Truthy(history_rate) /\ Val(history_rate) > 0
    THEN LET change_pct ==
                 Frac(Abs(Val(rate) - Val(history_rate)) * 100,
                      Val(history_rate))
         IN  IF FracGtInt(change_pct, EXCHANGE_RATE_CHANGE_THRESHOLD)
             THEN BotVerdict(FALSE,
                             BotMsgVolatility(change_pct, Val(history_rate),
                                              Val(rate)))
             ELSE BotVerdict(TRUE, BotMsgNormal)
    ELSE BotVerdict(TRUE, BotMsgNormal)

\* What the upstream API gives a run: no API key is configured, the
\* request fails, the reply carries an error code, the reply has no
\* result, the exchange value does not parse as a number, or the exchange
\* value is a number or is absent or empty (rate None).
UpstreamFailures ==
    {"no_api_key", "request_failed", "api_error", "empty_result", "bad_format"}
Upstream(kind, rate) == [kind |-> kind, rate |-> rate]

\* the dict get_exchange_rate returns; alert_sent is FALSE when the dict
\* has no such key
BotResult(rate, success, error, alert_sent) ==
    [rate |-> rate, success |-> success, error |-> error,
     alert_sent |-> alert_sent]

\* the arguments of a call of send_exchange_alert
BotAlert(alert_msg, current_rate, history_rate) ==
    [alert_msg |-> alert_msg, current_rate |-> current_rate,
     history_rate |-> history_rate]

\* the update time the API reports
BotUpdateTime == "2024-01-15 10:30:00"

\* Mutant of GetExchangeRate: the rate is saved before it is validated.
GetExchangeRate_SavesFirst(file, target_currency, currency, up, t, rd, wr) ==
    LET currency_key == CurrencyKey(target_currency, currency)
        history == LoadExchangeHistory(file, rd)
        history_rate == RateOf(DictGet(history, currency_key))
        v == ValidateExchangeRate(up.rate, history_rate)
        saved == SaveExchangeHistory(file,
                    DictSet(history, currency_key,
                            RatePoint(up.rate, t, BotUpdateTime)), wr)
    IN  IF up.kind # "rate" \/ v.raised
        THEN [result |-> BotResult(None, FALSE, Some([kind |-> up.kind]), FALSE),
              file |-> file, alerts |-> << >>]
        ELSE IF ~v.ok
        THEN [result |-> BotResult(up.rate, FALSE, Some(v.message), TRUE),
              file |-> saved,
              alerts |-> <<BotAlert(v.message, up.rate, history_rate)>>]
        ELSE [result |-> BotResult(up.rate, TRUE, None, FALSE),
              file |-> saved, alerts |-> << >>]

\* get_exchange_rate: the returned dict, the new content of the file and
\* the calls of send_exchange_alert
GetExchangeRate(file, target_currency, currency, up, t, rd, wr) ==
    LET currency_key == CurrencyKey(target_currency, currency)
        history == LoadExchangeHistory(file, rd)
        history_rate == RateOf(DictGet(history, currency_key))
        v == ValidateExchangeRate(up.rate, history_rate)
    IN  CASE up.kind = "no_api_key" ->
                [result |-> BotResult(None, FALSE, Some([kind |-> "no_api_key"]),
                                      FALSE),
                 file |-> file, alerts |-> << >>]
          [] up.kind = "bad_format" ->
                [result |-> BotResult(None, FALSE, Some([kind |-> "bad_format"]),
                                      FALSE),
                 file |-> file, alerts |-> << >>]
          [] up.kind \in {"request_failed", "api_error", "empty_result"} ->
                [result |-> BotResult(None, FALSE, Some([kind |-> up.kind]),
                                      TRUE),
                 file |-> file,
                 alerts |-> <<BotAlert([kind |-> up.kind], Some(0), None)>>]
          [] up.kind = "rate" /\ v.raised ->
                [result |->
                    BotResult(None, FALSE,
                              Some([kind |-> "fetch_failed",
                                    exc |-> v.message.kind]), TRUE),
                 file |-> file,
                 alerts |->
                    <<BotAlert([kind |-> "system_exception",
                                exc |-> v.message.kind], Some(0), None)>>]
          [] up.kind = "rate" /\ ~v.raised /\ ~v.ok ->
                [result |-> BotResult(up.rate, FALSE, Some(v.message), TRUE),
                 file |-> file,
                 alerts |-> <<BotAlert(v.message, up.rate, history_rate)>>]
          [] up.kind = "rate" /\ ~v.raised /\ v.ok ->
                [result |-> BotResult(up.rate, TRUE, None, FALSE),
                 file |->
                    SaveExchangeHistory(file,
                        DictSet(history, currency_key,
                                RatePoint(up.rate, t, BotUpdateTime)), wr),
                 alerts |-> << >>]

\* the bots' currencies, and what the API may give as exchange value:
\* absent, negative, zero, below the minimum, 9.495, 10.00, 10.50, 10.505,
\* above the maximum
target_currency == "CNY"
BotCurrencies == {"PHP", "MYR"}
BotRates ==
    {None} \cup
    {Some(r) : r \in {-200, 0, EXCHANGE_RATE_MIN - 1, 1899, 2000, 2100, 2101,
                      EXCHANGE_RATE_MAX + 1}}
Upstreams ==
    {Upstream(k, None) : k \in UpstreamFailures}
    \cup {Upstream("rate", r) : r \in BotRates}

\* The history file starts missing.  The last call carries, for each pair,
\* the rate of the last run that reported success (accepted).
InitBot ==
    /\ store = {}
    /\ now = 0
    /\ call = [op |-> "init", accepted |-> [k \in Keys |-> None]]

\* one run of a bot; the history file is read and written without failure
GetExchangeRateCall ==
    \E currency \in BotCurrencies, up \in Upstreams, tm \in Clock :
        \E out \in {GetExchangeRate(store, target_currency, currency, up, tm,
                                    TRUE, "ok")} :
            /\ call' = [op |-> "get_exchange_rate", currency |-> currency,
                        upstream |-> up, ret |-> out.result,
                        alerts |-> out.alerts,
                        accepted |->
                            [call.accepted EXCEPT
                                ![CurrencyKey(target_currency, currency)] =
                                    IF out.result.success THEN up.rate ELSE @]]
            /\ store' = out.file
            /\ now' = tm

NextBot == GetExchangeRateCall

SpecBot == InitBot /\ [][NextBot]_vars

\* the rate a file holds for a key, None if it holds no entry for it
StoredRateOf(file, k) == RateOf(DictGet(file, k))

\* C17: in BaseBot.get_exchange_rate rejection implies no persistence.
\* After any sequence of runs the file holds, for each bot's pair, exactly
\* one entry with the rate of the most recent run that was accepted, and
\* no entry if none was; a run whose rate is rejected leaves the file
\* unchanged and calls send_exchange_alert, and a run whose rate is
\* accepted calls no alert.
C17_RejectionImpliesNoPersistence ==
    /\ [](\A k \in Keys :
            /\ StoredRateOf(store, k) = call.accepted[k]
            /\ Cardinality(Entries(store, k)) =
                  (IF IsNone(call.accepted[k]) THEN 0 ELSE 1))
    /\ [][(call'.op = "get_exchange_rate" /\ call'.upstream.kind = "rate") =>
            LET k == CurrencyKey(target_currency, call'.currency)
                v == ValidateExchangeRate(call'.upstream.rate,
                                          StoredRateOf(store, k))
            IN  /\ call'.ret.success = (~v.raised /\ v.ok)
                /\ ~call'.ret.success =>
                      /\ store' = store
                      /\ Len(call'.alerts) = 1
                      /\ call'.ret.alert_sent
                /\ call'.ret.success =>
                      /\ call'.alerts = << >>
                      /\ StoredRateOf(store', k) = call'.upstream.rate]_vars

\* 10.505 is rejected for a pair whose last accepted rate is 10.00: the
\* file still holds 10.00 and one alert was sent
C17_Witness ==
    /\ call.op = "get_exchange_rate"
    /\ call.upstream = Upstream("rate", Some(2101))
    /\ call.accepted[CurrencyKey(target_currency, call.currency)] = Some(2000)
    /\ StoredRateOf(store, CurrencyKey(target_currency, call.currency)) = Some(2000)
    /\ ~call.ret.success
    /\ call.ret.error = Some(BotMsgVolatility([num |-> 101, den |-> 20], 2000, 2101))
    /\ Len(call.alerts) = 1

\* C20: validate_exchange_rate rejects an absent rate with the reason
\* "rate value is empty", so that get_exchange_rate reports an absent
\* exchange value as a validation rejection with that reason (and alerts
\* with it) and persists nothing.
C20_AbsentRateRejectedAsEmpty ==
    [][(/\ call'.op = "get_exchange_rate"
        /\ call'.upstream.kind = "rate"
        /\ IsNone(call'.upstream.rate))
       => /\ \A h \in StoredRates :
                ValidateExchangeRate(None, h) = BotVerdict(FALSE, BotMsgEmpty)
          /\ ~call'.ret.success
          /\ call'.ret.error = Some(BotMsgEmpty)
          /\ store' = store]_vars

\* what get_exchange_rate does with an absent exchange value: the
\* comparison in validate_exchange_rate raises TypeError, the run reports
\* a failed fetch, alerts a system exception with a current rate of 0, and
\* persists nothing
C20_AbsentRateRaises ==
    [][(/\ call'.op = "get_exchange_rate"
        /\ call'.upstream.kind = "rate"
        /\ IsNone(call'.upstream.rate))
       => /\ \A h \in StoredRates : ValidateExchangeRate(None, h).raised
          /\ ~call'.ret.success
          /\ call'.ret.error =
                Some([kind |-> "fetch_failed", exc |-> "TypeError"])
          /\ call'.alerts =
                <<BotAlert([kind |-> "system_exception", exc |-> "TypeError"],
                           Some(0), None)>>
          /\ store' = store]_vars

-----------------------------------------------------------------------------
(* Two check_and_record calls for one pair, interleaved.  A call is the    *)
(* sequence of its reads and writes of the history file: get_last_rate      *)
(* (a load), validate_rate (a load and the decision), and for an accepted  *)
(* rate record_rate: load_history, then save_history, which opens the      *)
(* file for writing (truncating it) and then dumps the history into it.    *)
(* call holds the two calls in progress (calls), the call that completed   *)
(* a save last (last_saver, 0 if none), whether every save so far ran from *)
(* its open to its dump with no step of the other call in between          *)
(* (atomic), and the file as it was at the start (initial).                *)

Procs == {1, 2}

\* both calls are for CNY / PHP; the first is made without update_time
ConcurrentFrom == "CNY"
ConcurrentTo == "PHP"
ConcurrentKey == CurrencyKey(ConcurrentFrom, ConcurrentTo)
ConcurrentUpdateTime(p) == IF p = 1 THEN "" ELSE "2024-01-15 10:30:00"

\* 10.00, 10.50, 10.505
ConcurrentRates == {Some(2000), Some(2100), Some(2101)}

\* a call before its first step
NewCall(p, rate, to_currency) ==
    [pc |-> "get_last_rate", rate |-> rate, to |-> to_currency,
     update_time |-> ConcurrentUpdateTime(p), last_rate |-> None,
     ok |-> FALSE, history |-> {}, clobbered |-> FALSE]

InitConcurrent ==
    /\ store \in InitStores
    /\ now = 0
    /\ \E r1 \in ConcurrentRates, r2 \in ConcurrentRates :
          call = [op |-> "init", p |-> 0,
                  calls |-> [p \in Procs |->
                                NewCall(p, IF p = 1 THEN r1 ELSE r2,
                                        ConcurrentTo)],
                  last_saver |-> 0, atomic |-> TRUE, initial |-> store]

\* the other call has opened the file for writing and not yet dumped
OtherMidSave(p) == \E q \in Procs \ {p} : call.calls[q].pc = "save_dump"

\* the last call after a step of p that leaves p's call as rec
Stepped(p, op, rec, saver) ==
    [op |-> op, p |-> p,
     calls |-> [q \in Procs |->
                  IF q = p
                  THEN rec
                  ELSE IF op = "save_dump" /\ call.calls[q].pc = "save_dump"
                  THEN [call.calls[q] EXCEPT !.clobbered = TRUE]
                  ELSE call.calls[q]],
     last_saver |-> saver,
     atomic |-> call.atomic /\ ~OtherMidSave(p),
     initial |-> call.initial]

\* check_and_record: last_rate = get_last_rate(..).get("rate")
GetLastRateStep(p) ==
    /\ call.calls[p].pc = "get_last_rate"
    /\ call' = Stepped(p, "get_last_rate",
                       [call.calls[p] EXCEPT
                           !.pc = "validate_rate",
                           !.last_rate =
                               RateOf(GetLastRate(store, ConcurrentFrom,
                                                  call.calls[p].to, TRUE))],
                       call.last_saver)
    /\ UNCHANGED <<store, now>>

\* check_and_record: validate_rate, which loads the history itself; a
\* rejected call alerts and returns
ValidateRateStep(p) ==
    /\ call.calls[p].pc = "validate_rate"
    /\ \E v \in {ValidateRate(store, call.calls[p].rate, ConcurrentFrom,
                              call.calls[p].to, TRUE, TRUE)} :
          call' = Stepped(p, "validate_rate",
                          [call.calls[p] EXCEPT
                              !.pc = IF v.ok THEN "load_history" ELSE "done",
                              !.ok = v.ok],
                          call.last_saver)
    /\ UNCHANGED <<store, now>>

\* record_rate: history = self.load_history(), then history[key] = {..}
LoadHistoryStep(p) ==
    /\ call.calls[p].pc = "load_history"
    /\ call' = Stepped(p, "load_history",
                       [call.calls[p] EXCEPT
                           !.pc = "save_open",
                           !.history =
                               DictSet(LoadHistory(store, TRUE),
                                       CurrencyKey(ConcurrentFrom,
                                                   call.calls[p].to),
                                       RatePoint(call.calls[p].rate, now,
                                                 call.calls[p].update_time))],
                       call.last_saver)
    /\ UNCHANGED <<store, now>>

\* save_history: open(history_file, "w") truncates the file, which then
\* does not parse: a load yields {}
SaveOpenStep(p) ==
    /\ call.calls[p].pc = "save_open"
    /\ call' = Stepped(p, "save_open",
                       [call.calls[p] EXCEPT
                           !.pc = "save_dump", !.clobbered = FALSE],
                       call.last_saver)
    /\ store' = {}
    /\ UNCHANGED now

\* save_history: json.dump and close write the history from the start of
\* the file.  If the other call wrote after this one opened the file, the
\* file holds this history followed by what is left of the other one when
\* that was longer, and then does not parse.
SaveDumpStep(p) ==
    /\ call.calls[p].pc = "save_dump"
    /\ call' = Stepped(p, "save_dump", [call.calls[p] EXCEPT !.pc = "done"], p)
    /\ \/ store' = call.calls[p].history
       \/ call.calls[p].clobbered /\ store' = {}
    /\ UNCHANGED now

NextConcurrent ==
    \E p \in Procs :
        \/ GetLastRateStep(p)
        \/ ValidateRateStep(p)
        \/ LoadHistoryStep(p)
        \/ SaveOpenStep(p)
        \/ SaveDumpStep(p)

SpecConcurrent == InitConcurrent /\ [][NextConcurrent]_vars

\* no call is between the open and the dump of its save
NoSaveInProgress == \A p \in Procs : call.calls[p].pc # "save_dump"

\* the entry the call of p writes for the pair
EntryOf(p) ==
    [key |-> CurrencyKey(ConcurrentFrom, call.calls[p].to),
     rec |-> RatePoint(call.calls[p].rate, now, call.calls[p].update_time)]

C18_LastWriterWinsTornSaves ==
    NoSaveInProgress
    => Entries(store, ConcurrentKey) =
          (IF call.last_saver = 0
           THEN Entries(call.initial, ConcurrentKey)
           ELSE {EntryOf(call.last_saver)})

-----------------------------------------------------------------------------
(* The two validators                                                      *)

\* C21: for every rate that is not absent and every prior rate (absent,
\* not positive, positive), validate_exchange_rate(rate, history_rate)
\* accepts exactly when validate_rate accepts on a file that holds
\* history_rate for the pair, and both reject for the same kind of reason
\* (not positive, out of range, excessive change); the bounds and the
\* threshold of the two are the same.
C21_ValidatorsAgree ==
    /\ EXCHANGE_RATE_MIN = rate_min
    /\ EXCHANGE_RATE_MAX = rate_max
    /\ EXCHANGE_RATE_CHANGE_THRESHOLD = change_threshold
    /\ (/\ call.op = "validate_rate"
        /\ call.check_volatility
        /\ call.rd
        /\ ~IsNone(call.rate))
       => LET b == ValidateExchangeRate(call.rate,
                                        StoredRate(store, call.from, call.to))
          IN  /\ ~b.raised
              /\ b.ok = call.ret.ok
              /\ b.message.kind = call.ret.message.kind
              /\ b.message.kind = "volatility" =>
                    /\ b.message.change = FracAbs(call.ret.message.change)
                    /\ b.message.from = call.ret.message.from

\* 9.495 is rejected for an excessive change (a fall of 5.05%) against a
\* stored 10.00 by validate_rate, and by validate_exchange_rate
C21_Witness ==
    /\ call.op = "validate_rate"
    /\ call.check_volatility
    /\ call.rd
    /\ call.rate = Some(1899)
    /\ StoredRate(store, call.from, call.to) = Some(2000)
    /\ call.ret.message.kind = "volatility"
    /\ ~ValidateExchangeRate(call.rate, Some(2000)).ok

-----------------------------------------------------------------------------
(* What a failed read costs the entries of the file                        *)

\* the entries a file holds for the keys other than k
OtherEntries(file, k) == {e \in file : e.key # k}

\* C22: record_rate for one pair changes only that pair's entry: the
\* entries of all other pairs are the same after the call as before it,
\* for every content of the file and every outcome of the read that
\* precedes the write, a failed read included.
C22_RecordRateKeepsOtherPairs ==
    [][(call'.op = "record_rate" /\ call'.wr = "ok") =>
        OtherEntries(store', CurrencyKey(call'.from, call'.to)) =
            OtherEntries(store, CurrencyKey(call'.from, call'.to))]_vars

\* what record_rate does: the other pairs keep their entries when the
\* read succeeded, and lose them when it failed
C22_RecordRateKeepsOtherPairsIfRead ==
    [][(call'.op = "record_rate" /\ call'.wr = "ok") =>
        OtherEntries(store', CurrencyKey(call'.from, call'.to)) =
            (IF call'.rd
             THEN OtherEntries(store, CurrencyKey(call'.from, call'.to))
             ELSE {})]_vars

\* the timestamp of the entry is newer than the cutoff of a
\* clean_old_records(days) called at time t
Fresh(e, days, t) ==
    ~IsNone(e.rec.timestamp) /\ Val(e.rec.timestamp) > t - days

\* C26: clean_old_records never deletes an entry whose timestamp is newer
\* than the cutoff, whatever the outcome of the read that precedes its
\* write: a failed read does not lose fresh entries.
C26_CleanKeepsFreshEntries ==
    [][(call'.op = "clean_old_records" /\ call'.wr = "ok") =>
        \A e \in store : Fresh(e, call'.days, now') => e \in store']_vars

\* what clean_old_records does: fresh entries stay when the read
\* succeeded; after a failed read the file holds no entry at all
C26_CleanKeepsFreshEntriesIfRead ==
    [][(call'.op = "clean_old_records" /\ call'.wr = "ok") =>
        IF call'.rd
        THEN \A e \in store : Fresh(e, call'.days, now') => e \in store'
        ELSE store' = {}]_vars

-----------------------------------------------------------------------------
(* check_and_record alone, on a file that starts missing; reads and        *)
(* writes succeed.  The last call carries how many times in a row the      *)
(* same rate was presented for the same pair (presented).                  *)

\* the presentations of one rate that are counted
MaxPresented == 2

\* absent, negative, zero, below rate_min, rate_min, 9.495, 9.50, 10.00,
\* 10.50, 10.505, rate_max, above rate_max
CheckOnlyRates ==
    {None} \cup
    {Some(r) : r \in {-200, 0, rate_min - 1, rate_min, 1899, 1900, 2000,
                      2100, 2101, rate_max, rate_max + 1}}

InitCheckOnly ==
    /\ store = {}
    /\ now = 0
    /\ call = [op |-> "init"]

CheckOnlyCall ==
    \E rate \in CheckOnlyRates, f \in FromCurrencies, t \in ToCurrencies,
       fn \in AlertFuncs :
        \E out \in {CheckAndRecord(store, rate, f, t, "", fn, now, NoFault)} :
            /\ call' = [op |-> "check_and_record", rate |-> rate, from |-> f,
                        to |-> t, send_alert_func |-> fn, ret |-> out.result,
                        alerts |-> out.alerts,
                        presented |->
                            IF /\ call.op = "check_and_record"
                               /\ call.rate = rate
                               /\ call.from = f
                               /\ call.to = t
                            THEN IF call.presented < MaxPresented
                                 THEN call.presented + 1
                                 ELSE call.presented
                            ELSE 1]
            /\ store' = out.file
            /\ UNCHANGED now

NextCheckOnly == CheckOnlyCall

SpecCheckOnly == InitCheckOnly /\ [][NextCheckOnly]_vars

\* C23: starting from an empty store and using only check_and_record,
\* every rate stored is positive and within [rate_min, rate_max], whatever
\* absent, non-positive, out-of-range or volatile rates are mixed in.
C23_StoredRatesWithinBounds ==
    \A e \in store :
        /\ ~IsNone(e.rec.rate)
        /\ Val(e.rec.rate) > 0
        /\ Val(e.rec.rate) >= rate_min
        /\ Val(e.rec.rate) <= rate_max

\* the file holds rate_min for one pair and rate_max for the other, and
\* the last call, with a rate above rate_max, was rejected
C23_Witness ==
    /\ call.op = "check_and_record"
    /\ call.rate = Some(rate_max + 1)
    /\ ~call.ret.success
    /\ {e.rec.rate : e \in store} = {Some(rate_min), Some(rate_max)}

\* C24: in a run of check_and_record calls with reads and writes
\* succeeding, a stored rate that replaces a stored positive rate of the
\* same pair differs from it by at most change_threshold percent.
C24_ConsecutiveStoredRatesClose ==
    [][\A k \in Keys :
          (/\ ~IsNone(StoredRateOf(store, k))
           /\ Val(StoredRateOf(store, k)) > 0
           /\ Entries(store', k) # Entries(store, k))
          => /\ ~IsNone(StoredRateOf(store', k))
             /\ Abs(Val(StoredRateOf(store', k)) - Val(StoredRateOf(store, k)))
                   * 100
                <= change_threshold * Val(StoredRateOf(store, k))]_vars

\* 9.50 has replaced 10.00, a fall of exactly 5 percent
C24_Witness ==
    /\ call.op = "check_and_record"
    /\ call.rate = Some(1900)
    /\ call.ret.success
    /\ call.ret.last_rate = Some(2000)
    /\ StoredRate(store, call.from, call.to) = Some(1900)

\* C25: rejection is sticky.  While the stored rate of a pair is R > 0, a
\* check_and_record call with a rate that deviates from R by more than
\* the threshold is rejected, however many times the rate is presented:
\* the file stays as it was and a callback that was passed is invoked once
\* by each such call.
C25_RejectionIsSticky ==
    [][(/\ call'.op = "check_and_record"
        /\ ~IsNone(call'.rate)
        /\ ~IsNone(StoredRate(store, call'.from, call'.to))
        /\ Val(StoredRate(store, call'.from, call'.to)) > 0
        /\ Abs(Val(call'.rate) - Val(StoredRate(store, call'.from, call'.to)))
              * 100
           > change_threshold * Val(StoredRate(store, call'.from, call'.to)))
       => /\ ~call'.ret.success
          /\ store' = store
          /\ Len(call'.alerts) =
                (IF call'.send_alert_func = "none" THEN 0 ELSE 1)]_vars

\* 10.505 is presented for the second time in a row against a stored
\* 10.00 and is rejected again; the callback is invoked again
C25_Witness ==
    /\ call.op = "check_and_record"
    /\ call.presented = MaxPresented
    /\ call.rate = Some(2101)
    /\ ~call.ret.success
    /\ call.ret.message.kind = "volatility"
    /\ Len(call.alerts) = 1
    /\ StoredRate(store, call.from, call.to) = Some(2000)

-----------------------------------------------------------------------------
(* Two check_and_record calls for two different pairs, interleaved: the    *)
(* first for CNY / PHP, the second for CNY / MYR, by the same steps.       *)

InitConcurrentPairs ==
    /\ store \in InitStores
    /\ now = 0
    /\ \E r1 \in ConcurrentRates, r2 \in ConcurrentRates :
          call = [op |-> "init", p |-> 0,
                  calls |-> [p \in Procs |->
                                NewCall(p, IF p = 1 THEN r1 ELSE r2,
                                        IF p = 1 THEN "PHP" ELSE "MYR")],
                  last_saver |-> 0, atomic |-> TRUE, initial |-> store]

SpecConcurrentPairs == InitConcurrentPairs /\ [][NextConcurrent]_vars

\* C27: interleaved check_and_record calls for two different pairs do not
\* interfere: once both calls have finished, each pair's entry holds the
\* rate accepted for that pair, even with every save running as one step.
C27_PairsDoNotInterfere ==
    (/\ call.atomic
     /\ \A p \in Procs : call.calls[p].pc = "done")
    => \A p \in Procs :
          call.calls[p].ok =>
             StoredRateOf(store, CurrencyKey(ConcurrentFrom, call.calls[p].to))
                = call.calls[p].rate

\* what holds instead: the call that saved last keeps its entry, and the
\* entry of the other pair is the one the last saver had loaded
C27_LastSaverWritesWholeFile ==
    (/\ call.atomic
     /\ \A p \in Procs : call.calls[p].pc = "done"
     /\ call.last_saver # 0)
    => store = call.calls[call.last_saver].history

\* ---------------------------------------------------------------------
\* Delivery of the briefing: DingTalkClient.send_markdown_message,
\* BaseBot.send_to_groups and BaseBot.run (base_bot.py)
\* ---------------------------------------------------------------------

\* the largest number of groups load_groups gives a run
MaxGroups == 2

\* What one requests.post of send_markdown_message, with the parsing of its
\* reply, comes to: the reply carries a processQueryKey, the reply carries
\* the code InvalidAuthentication, the reply carries another code or none,
\* or the request or the parsing raises.
SendOutcomes == {"ack", "invalid_auth", "error", "raises"}

\* One call of send_markdown_message as the network lets it run: the
\* outcome of the first post, whether _get_access_token obtains a token
\* (it raises otherwise), and the outcome of a second post.
SendScenarios ==
    [first : SendOutcomes, refresh : BOOLEAN, second : SendOutcomes]

\* one post: the access token in its header and its outcome
Post(token, outcome) == [token |-> token, outcome |-> outcome]

\* what a call of send_markdown_message did: the value returned, whether an
\* exception left the call, the posts in order, the calls of
\* _get_access_token
SendResult(ret, posts, refreshes) ==
    [ret |-> ret, raised |-> FALSE, posts |-> posts, refreshes |-> refreshes]

\* Mutant of SendMarkdownMessage: every reply without a processQueryKey is
\* answered by a token refresh and a second post.
SendMarkdownMessage_RetriesAnyError(sc) ==
    CASE sc.first = "ack" ->
            SendResult(TRUE, <<Post("held", sc.first)>>, 0)
      [] sc.first = "raises" ->
            SendResult(FALSE, <<Post("held", sc.first)>>, 0)
      [] sc.first \in {"invalid_auth", "error"} /\ ~sc.refresh ->
            SendResult(FALSE, <<Post("held", sc.first)>>, 1)
      [] sc.first \in {"invalid_auth", "error"} /\ sc.refresh ->
            SendResult(sc.second = "ack",
                       <<Post("held", sc.first),
                         Post("refreshed", sc.second)>>, 1)

\* send_markdown_message: the whole body after the payload is built runs
\* in one try whose handler returns False
SendMarkdownMessage(sc) ==
    CASE sc.first = "ack" ->
            SendResult(TRUE, <<Post("held", sc.first)>>, 0)
      [] sc.first = "raises" ->
            SendResult(FALSE, <<Post("held", sc.first)>>, 0)
      [] sc.first = "error" ->
            SendResult(FALSE, <<Post("held", sc.first)>>, 0)
      [] sc.first = "invalid_auth" /\ ~sc.refresh ->
            SendResult(FALSE, <<Post("held", sc.first)>>, 1)
      [] sc.first = "invalid_auth" /\ sc.refresh ->
            SendResult(sc.second = "ack",
                       <<Post("held", sc.first),
                         Post("refreshed", sc.second)>>, 1)

\* What send_to_groups finds before its loop: no app_secret, no app_key,
\* the construction of the client raises (its token request fails), or
\* the client is created.
ClientOutcomes == {"no_secret", "no_key", "init_failed", "ok"}

\* A group of load_groups, by what its turn in the loop comes to: it has
\* no open_conversation_id, or it has one and send_markdown_message
\* returns True, returns False, or raises.
GroupKinds == {"no_id", "true", "false", "raises"}
GroupLists == UNION {[1 .. n -> GroupKinds] : n \in 0 .. MaxGroups}

\* what a call of send_to_groups did: the count returned and the indexes
\* of the groups send_markdown_message was called for, in order
GroupsResult(count, attempts) == [count |-> count, attempts |-> attempts]

\* Mutant of SendLoop: an exception of a delivery ends the loop.
RECURSIVE SendLoop_StopsAtRaise(_, _, _)
SendLoop_StopsAtRaise(groups, i, acc) ==
    IF i > Len(groups) THEN acc
    ELSE IF groups[i] = "no_id"
    THEN SendLoop_StopsAtRaise(groups, i + 1, acc)
    ELSE IF groups[i] = "raises"
    THEN GroupsResult(acc.count, Append(acc.attempts, i))
    ELSE SendLoop_StopsAtRaise(groups, i + 1,
            GroupsResult(IF groups[i] = "true" THEN acc.count + 1
                                               ELSE acc.count,
                         Append(acc.attempts, i)))

\* the loop of send_to_groups from group i on
RECURSIVE SendLoop(_, _, _)
SendLoop(groups, i, acc) ==
    IF i > Len(groups) THEN acc
    ELSE IF groups[i] = "no_id"
    THEN SendLoop(groups, i + 1, acc)
    ELSE SendLoop(groups, i + 1,
            GroupsResult(IF groups[i] = "true" THEN acc.count + 1
                                               ELSE acc.count,
                         Append(acc.attempts, i)))

\* send_to_groups
SendToGroups(client, groups) ==
    IF client # "ok" THEN GroupsResult(0, << >>)
    ELSE IF groups = << >> THEN GroupsResult(0, << >>)
    ELSE SendLoop(groups, 1, GroupsResult(0, << >>))

\* what a call of run did: the value returned, the new content of the
\* history file, the dict of get_exchange_rate, whether build_message and
\* send_to_groups were called, and what send_to_groups did
RunResult(ret, x, built, sent) ==
    [ret |-> ret, file |-> x.file, exchange |-> x.result, built |-> built,
     sent |-> sent]

\* Mutant of Run: the run ends when either fetch failed.
Run_RequiresBoth(file, weather_success, currency, up, t, client, groups) ==
    LET x == GetExchangeRate(file, target_currency, currency, up, t, TRUE, "ok")
        sent == SendToGroups(client, groups)
    IN  IF ~weather_success \/ ~x.result.success
        THEN RunResult(FALSE, x, FALSE, GroupsResult(0, << >>))
        ELSE RunResult(sent.count > 0, x, TRUE, sent)

\* run
Run(file, weather_success, currency, up, t, client, groups) ==
    LET x == GetExchangeRate(file, target_currency, currency, up, t, TRUE, "ok")
        sent == SendToGroups(client, groups)
    IN  IF ~weather_success /\ ~x.result.success
        THEN RunResult(FALSE, x, FALSE, GroupsResult(0, << >>))
        ELSE RunResult(sent.count > 0, x, TRUE, sent)

\* what the API gives a run of the briefing, and the groups of a run
RunUpstreams == {Upstream("request_failed", None), Upstream("rate", Some(2000))}
RunGroupLists ==
    {<< >>, <<"no_id">>, <<"true">>, <<"false">>, <<"raises">>,
     <<"false", "true">>, <<"raises", "false">>}

InitDelivery ==
    /\ store = {}
    /\ now = 0
    /\ call = [op |-> "init"]

SendMarkdownMessageCall ==
    \E sc \in SendScenarios :
        /\ call' = [op |-> "send_markdown_message", scenario |-> sc,
                    out |-> SendMarkdownMessage(sc)]
        /\ UNCHANGED <<store, now>>

SendToGroupsCall ==
    \E client \in ClientOutcomes, groups \in GroupLists :
        /\ call' = [op |-> "send_to_groups", client |-> client,
                    groups |-> groups, out |-> SendToGroups(client, groups)]
        /\ UNCHANGED <<store, now>>

RunCall ==
    \E weather_success \in BOOLEAN, up \in RunUpstreams,
       client \in ClientOutcomes, groups \in RunGroupLists :
        \E out \in {Run(store, weather_success, "PHP", up, now, client,
                        groups)} :
            /\ call' = [op |-> "run", weather_success |-> weather_success,
                        upstream |-> up, client |-> client,
                        groups |-> groups, out |-> out]
            /\ store' = out.file
            /\ UNCHANGED now

NextDelivery ==
    \/ SendMarkdownMessageCall
    \/ SendToGroupsCall
    \/ RunCall

SpecDelivery == InitDelivery /\ [][NextDelivery]_vars

\* the groups of a list that have an open_conversation_id
WithId(groups) == {i \in 1 .. Len(groups) : groups[i] # "no_id"}

\* the attempts are the groups of the list that have an
\* open_conversation_id, each once, in the order of the list
AttemptsEveryGroupInOrder(groups, attempts) ==
    /\ {attempts[j] : j \in 1 .. Len(attempts)} = WithId(groups)
    /\ \A j \in 1 .. Len(attempts), k \in 1 .. Len(attempts) :
          j < k => attempts[j] < attempts[k]

\* the count is the number of attempted groups whose delivery returned
\* True, and is at most the number of attempts
CountsSuccesses(groups, out) ==
    /\ out.count =
          Cardinality({j \in 1 .. Len(out.attempts) :
                          groups[out.attempts[j]] = "true"})
    /\ out.count <= Len(out.attempts)

\* C30: send_markdown_message posts at most twice; it refreshes the token
\* and posts a second time only when the first reply carries the code
\* InvalidAuthentication; it returns True exactly when one of its posts was
\* acknowledged with a processQueryKey, and otherwise returns False without
\* raising, a failing token refresh included.
C30_RetriesAtMostOnce ==
    call.op = "send_markdown_message" =>
        LET sc == call.scenario
            out == call.out
        IN  /\ Len(out.posts) \in {1, 2}
            /\ out.posts[1].outcome = sc.first
            /\ out.refreshes = (IF sc.first = "invalid_auth" THEN 1 ELSE 0)
            /\ Len(out.posts) = 2
                  <=> (sc.first = "invalid_auth" /\ sc.refresh)
            /\ Len(out.posts) = 2
                  => out.posts[2] = Post("refreshed", sc.second)
            /\ out.ret
                  <=> \E j \in 1 .. Len(out.posts) :
                         out.posts[j].outcome = "ack"
            /\ ~out.raised

\* a first post refused with InvalidAuthentication, a token refresh and an
\* acknowledged second post
C30_Witness ==
    /\ call.op = "send_markdown_message"
    /\ call.scenario.first = "invalid_auth"
    /\ call.scenario.refresh
    /\ Len(call.out.posts) = 2
    /\ call.out.posts[2].outcome = "ack"
    /\ call.out.ret

\* a failing token refresh: one post, False returned, nothing raised
C30_WitnessRefreshFails ==
    /\ call.op = "send_markdown_message"
    /\ call.scenario.first = "invalid_auth"
    /\ ~call.scenario.refresh
    /\ Len(call.out.posts) = 1
    /\ ~call.out.ret
    /\ ~call.out.raised

\* C29: send_to_groups attempts delivery to every configured group that
\* has an open_conversation_id, in order, whatever the deliveries before it
\* came to; the count returned is the number of groups whose delivery
\* succeeded and is at most the number of groups attempted.
C29_AttemptsEveryGroup ==
    call.op = "send_to_groups" =>
        /\ AttemptsEveryGroupInOrder(call.groups, call.out.attempts)
        /\ CountsSuccesses(call.groups, call.out)

\* C29 as it holds: the same once the client is created; without
\* app_secret or app_key, or when the construction of the client raises,
\* no delivery is attempted and 0 is returned.
C29_AttemptsEveryGroupOnceClientCreated ==
    call.op = "send_to_groups" =>
        /\ call.client = "ok"
              => AttemptsEveryGroupInOrder(call.groups, call.out.attempts)
        /\ call.client # "ok"
              => call.out = GroupsResult(0, << >>)
        /\ CountsSuccesses(call.groups, call.out)

\* a raising delivery to the first group, a delivery to the second group
\* that succeeds
C29_Witness ==
    /\ call.op = "send_to_groups"
    /\ call.client = "ok"
    /\ call.groups = <<"raises", "true">>
    /\ call.out.attempts = <<1, 2>>
    /\ call.out.count = 1

\* groups with an open_conversation_id, and a client whose token request
\* fails
C29_WitnessNoClient ==
    /\ call.op = "send_to_groups"
    /\ call.client = "init_failed"
    /\ WithId(call.groups) # {}
    /\ call.out.attempts = << >>

\* C28: run calls neither build_message nor send_to_groups and returns
\* False when the weather fetch and the exchange-rate fetch both failed;
\* otherwise it builds the message and hands it to send_to_groups, and it
\* returns True exactly when the delivery to at least one group succeeded.
C28_RunSendsUnlessBothFailed ==
    call.op = "run" =>
        LET out == call.out
            both_failed == ~call.weather_success /\ ~out.exchange.success
        IN  /\ both_failed
                  => /\ ~out.ret
                     /\ ~out.built
                     /\ out.sent.attempts = << >>
            /\ ~both_failed
                  => /\ out.built
                     /\ out.sent = SendToGroups(call.client, call.groups)
                     /\ out.ret
                           <=> \E j \in 1 .. Len(out.sent.attempts) :
                                  call.groups[out.sent.attempts[j]] = "true"

\* the weather fetch failed, the exchange-rate fetch succeeded, and the
\* briefing reached the second of two groups
C28_Witness ==
    /\ call.op = "run"
    /\ ~call.weather_success
    /\ call.out.exchange.success
    /\ call.groups = <<"false", "true">>
    /\ call.client = "ok"
    /\ call.out.built
    /\ call.out.ret

\* both fetches failed: nothing is sent although a group would take it
C28_WitnessBothFailed ==
    /\ call.op = "run"
    /\ ~call.weather_success
    /\ ~call.out.exchange.success
    /\ call.client = "ok"
    /\ call.groups = <<"true">>
    /\ ~call.out.ret
    /\ call.out.sent.attempts = << >>

====
